---- MODULE Spec2Model ----
(***************************************************************************)
(* A model of the web crawler of Web-Scrapering-AI (scraper.ts: class      *)
(* WebCrawler, scrapeWebsite) together with the POST /api/scrape handler   *)
(* of the server that calls it.                                            *)
(*                                                                         *)
(* Strings are sequences of tokens ("https://", "a.com", "/", "login",     *)
(* ...): String.includes is contiguous sub-sequence, split('#')[0] is the  *)
(* prefix before the first "#" token.  new URL(...) is modelled by a       *)
(* parser of that token language (scheme, hostname, port, path, fragment). *)
(*                                                                         *)
(* Every `await` of the code is a suspension point and so a separate       *)
(* action; the code between two awaits is one atomic step.                 *)
(***************************************************************************)
EXTENDS Integers, Sequences, FiniteSets, TLC

(***************************************************************************)
(* Bounds of the model.                                                    *)
(***************************************************************************)
\* Handler invocations that exist as objects.
MaxRequests == 2
\* Anchors on one fetched page.
MaxLinks == 2
\* config.maxPages ranges over 0..MaxPagesBound.
MaxPagesBound == 2
\* config.maxDepth ranges over 0..MaxDepthBound.
MaxDepthBound == 1

Requests == 1..MaxRequests

(***************************************************************************)
(* The token language of URLs.                                             *)
(***************************************************************************)
Schemes == {"https://", "http://"}
HostTokens == {"a.com", "A.com", "b.com"}
PortTokens == {":8080", ":443"}
PathTokens == {"/", "docs", "login", "page", "reset", "x"}
FragTokens == {"top", "sec"}
EmptyString == << >>

\* The scheme's default port, which the URL parser drops from href.
DefaultPort(scheme) == IF scheme = "https://" THEN ":443" ELSE ":80"

\* Host names are lower-cased by the URL parser.
LowerHost(h) == IF h = "A.com" THEN "a.com" ELSE h

\* s.includes(p)
Includes(s, p) ==
    \E i \in 1..(Len(s) + 1) :
        /\ i + Len(p) - 1 <= Len(s)
        /\ SubSeq(s, i, i + Len(p) - 1) = p

\* Index of the first "#" of s, or Len(s) + 1.
HashIndex(s) ==
    LET hashes == {i \in 1..Len(s) : s[i] = "#"}
    IN IF hashes = {} THEN Len(s) + 1
       ELSE CHOOSE i \in hashes : \A j \in hashes : i <= j

\* s.split('#')[0]
SplitHash(s) == SubSeq(s, 1, HashIndex(s) - 1)

\* Every token of s is one of tokens.
AllIn(s, tokens) == \A i \in 1..Len(s) : s[i] \in tokens

NoUrl == [ok |-> FALSE]

\* new URL(s) for an absolute s; ok = FALSE stands for the TypeError.
ParseAbs(s) ==
    IF Len(s) < 2 \/ s[1] \notin Schemes \/ s[2] \notin HostTokens
    THEN NoUrl
    ELSE LET hasPort == Len(s) >= 3 /\ s[3] \in PortTokens
             rest == SubSeq(s, IF hasPort THEN 4 ELSE 3, Len(s))
             hash == HashIndex(rest)
             path == SubSeq(rest, 1, hash - 1)
             frag == SubSeq(rest, hash + 1, Len(rest))
         IN IF \/ ~AllIn(path, PathTokens)
               \/ (path # << >> /\ path[1] # "/")
               \/ ~AllIn(frag, FragTokens)
            THEN NoUrl
            ELSE [ok |-> TRUE,
                  scheme |-> s[1],
                  hostname |-> LowerHost(s[2]),
                  port |-> IF hasPort /\ s[3] # DefaultPort(s[1]) THEN <<s[3]>> ELSE << >>,
                  path |-> IF path = << >> THEN <<"/">> ELSE path,
                  hasFrag |-> hash <= Len(rest),
                  frag |-> frag]

\* The directory of a path: up to and including its last "/".
DirOf(path) ==
    LET last == CHOOSE i \in 1..Len(path) :
                    path[i] = "/" /\ \A j \in (i + 1)..Len(path) : path[j] # "/"
    IN SubSeq(path, 1, last)

\* new URL(s, base): s absolute, or a reference resolved against base.
ParseUrl(s, base) ==
    IF s # << >> /\ s[1] \in Schemes THEN ParseAbs(s)
    ELSE LET b == ParseAbs(base)
             hash == HashIndex(s)
             ref == SubSeq(s, 1, hash - 1)
             frag == SubSeq(s, hash + 1, Len(s))
         IN IF ~b.ok THEN NoUrl
            ELSE IF ~AllIn(ref, PathTokens) \/ ~AllIn(frag, FragTokens)
            THEN NoUrl
            ELSE [b EXCEPT
                    !.path = IF ref = << >> THEN b.path
                             ELSE IF ref[1] = "/" THEN ref
                             ELSE DirOf(b.path) \o ref,
                    !.hasFrag = hash <= Len(s),
                    !.frag = frag]

\* URL.href
Href(u) ==
    <<u.scheme, u.hostname>> \o u.port \o u.path
        \o (IF u.hasFrag THEN <<"#">> \o u.frag ELSE << >>)

(***************************************************************************)
(* Configuration.                                                          *)
(***************************************************************************)
defaultConfig ==
    [maxDepth |-> 2,
     maxPages |-> 20,
     sameDomain |-> TRUE,
     excludePatterns |-> << <<"/", "auth", "/">>, <<"/", "login">>, <<"/", "logout">>,
                            <<"/", "signin">>, <<"/", "signup">>, <<"/", "register">>,
                            <<".pdf">>, <<".jpg">>, <<".png">>, <<".gif">> >>]

\* The excludePatterns a caller of crawl passes.
PatternLists == { << >>, << <<"/", "login">> >> }

\* The ScrapingConfig values a caller of crawl passes.
Configs ==
    [maxDepth : 0..MaxDepthBound,
     maxPages : 0..MaxPagesBound,
     sameDomain : BOOLEAN,
     excludePatterns : PatternLists]

\* The start URLs a caller passes: canonical, with a fragment, and one that
\* is no URL.
StartUrls ==
    { <<"https://", "a.com", "/", "login">>,
      <<"https://", "a.com", "/", "#", "top">>,
      <<"not a url">> }

\* The sites crawled: each is the set of href attributes that occur on its
\* pages.  The first has fragment variants, a relative path and links back
\* to the start; the second links that the exclude patterns screen and an
\* empty href; the third links that differ from the start in scheme, port
\* or case, a link to another host and a malformed href.
Sites ==
    { { <<"/", "docs">>, <<"/", "docs", "#", "sec">>, <<"#", "top">>, <<"x">> },
      { <<"/", "docs">>, <<"/", "login", "/", "reset">>, <<"/", "login", "page">>, << >> },
      { <<"http://", "a.com">>, <<"https://", "A.com", ":8080", "/">>,
        <<"https://", "b.com", "/", "x">>, <<"http://", "[">> } }

\* The site that two crawls running at the same time both read.
ConcSites == { { <<"/", "docs">>, <<"x">> } }

\* The anchors of one page of a site, in document order.
LinkListsOf ==
    [s \in Sites \cup ConcSites |-> UNION { [1..n -> s] : n \in 0..MaxLinks }]
LinkLists(s) == LinkListsOf[s]

(***************************************************************************)
(* WebCrawler: the pure methods.                                           *)
(***************************************************************************)
\* normalizeUrl(url), with this.baseUrl as a parameter.
normalizeUrl(url, baseUrl) ==
    LET parsed == ParseUrl(url, baseUrl)
    IN IF parsed.ok THEN SplitHash(Href(parsed)) ELSE EmptyString

\* normalizeUrl over the hrefs and the base URLs of the model, evaluated once.
Normalized ==
    [url \in UNION Sites, baseUrl \in StartUrls |-> normalizeUrl(url, baseUrl)]

\* shouldCrawl without the visited test.
shouldCrawl_revisit(url, config, visited, baseDomain) ==
    IF config.sameDomain /\ ParseAbs(url).hostname # baseDomain THEN FALSE
    ELSE ~ \E i \in 1..Len(config.excludePatterns) :
               Includes(url, config.excludePatterns[i])

\* shouldCrawl without the hostname test.
shouldCrawl_anyHost(url, config, visited, baseDomain) ==
    IF url \in visited THEN FALSE
    ELSE ~ \E i \in 1..Len(config.excludePatterns) :
               Includes(url, config.excludePatterns[i])

\* shouldCrawl with the patterns matched against the end of the url only.
shouldCrawl_suffix(url, config, visited, baseDomain) ==
    IF url \in visited THEN FALSE
    ELSE IF config.sameDomain /\ ParseAbs(url).hostname # baseDomain THEN FALSE
    ELSE ~ \E i \in 1..Len(config.excludePatterns) :
               LET pattern == config.excludePatterns[i]
               IN /\ Len(pattern) <= Len(url)
                  /\ SubSeq(url, Len(url) - Len(pattern) + 1, Len(url)) = pattern

\* shouldCrawl(url, config), with this.visited and this.baseDomain as parameters.
shouldCrawl(url, config, visited, baseDomain) ==
    IF url \in visited THEN FALSE
    ELSE IF config.sameDomain /\ ParseAbs(url).hostname # baseDomain THEN FALSE
    ELSE ~ \E i \in 1..Len(config.excludePatterns) :
               Includes(url, config.excludePatterns[i])

\* [...new Set(links)]: the first occurrence of each element, in order.
RECURSIVE Dedupe(_)
Dedupe(links) ==
    IF links = << >> THEN << >>
    ELSE LET init == Dedupe(SubSeq(links, 1, Len(links) - 1))
             last == links[Len(links)]
         IN IF \E i \in 1..Len(init) : init[i] = last THEN init ELSE Append(init, last)

\* extractLinks($, currentUrl) for a page whose a[href] values are hrefs.
RECURSIVE NormalizeAll(_, _)
NormalizeAll(hrefs, baseUrl) ==
    IF hrefs = << >> THEN << >>
    ELSE LET href == Head(hrefs)
             normalizedUrl == Normalized[href, baseUrl]
             rest == NormalizeAll(Tail(hrefs), baseUrl)
         IN IF href # EmptyString /\ normalizedUrl # EmptyString
            THEN <<normalizedUrl>> \o rest
            ELSE rest

extractLinks(hrefs, baseUrl) == Dedupe(NormalizeAll(hrefs, baseUrl))

\* PushLinks with unshift for push: the links go to the front of the queue.
RECURSIVE PushLinks_front(_, _, _, _, _, _)
PushLinks_front(queue, links, depth, config, visited, baseDomain) ==
    IF links = << >> THEN queue
    ELSE PushLinks_front(
            IF shouldCrawl(Head(links), config, visited, baseDomain)
            THEN <<[url |-> Head(links), depth |-> depth + 1]>> \o queue
            ELSE queue,
            Tail(links), depth, config, visited, baseDomain)

\* The for loop of crawl over links: queue.push of every link that should be crawled.
RECURSIVE PushLinks(_, _, _, _, _, _)
PushLinks(queue, links, depth, config, visited, baseDomain) ==
    IF links = << >> THEN queue
    ELSE PushLinks(
            IF shouldCrawl(Head(links), config, visited, baseDomain)
            THEN Append(queue, [url |-> Head(links), depth |-> depth + 1])
            ELSE queue,
            Tail(links), depth, config, visited, baseDomain)

\* LoopCond with the page budget tested by <= (one page too many).
LoopCond_offByOne(queue, visited, config) ==
    Len(queue) > 0 /\ Cardinality(visited) <= config.maxPages

\* The condition of crawl's while loop.
LoopCond(queue, visited, config) ==
    Len(queue) > 0 /\ Cardinality(visited) < config.maxPages

\* Expand with the new entries put before the pending ones (a stack).
Expand_prepend(queue, links, depth, config, visited, baseDomain) ==
    IF depth < config.maxDepth
    THEN PushLinks(<< >>, links, depth, config, visited, baseDomain) \o queue
    ELSE queue

\* Expand with the depth tested by <= (one level too deep).
Expand_tooDeep(queue, links, depth, config, visited, baseDomain) ==
    IF depth <= config.maxDepth
    THEN PushLinks(queue, links, depth, config, visited, baseDomain)
    ELSE queue

\* The links crawl expands after a successful scrape at depth.
Expand(queue, links, depth, config, visited, baseDomain) ==
    IF depth < config.maxDepth
    THEN PushLinks(queue, links, depth, config, visited, baseDomain)
    ELSE queue

(***************************************************************************)
(* State.                                                                  *)
(*                                                                         *)
(* crawler[r] is the WebCrawler object that request r constructs, with the *)
(* frame of its crawl call (and of the scrapePage call inside it):         *)
(*   visited, queue, browser, baseUrl, baseDomain   the object's fields    *)
(*   startUrl, config, contents                     crawl's frame          *)
(*   url, depth                                     the dequeued entry     *)
(*   tab, scraped                                   scrapePage's frame     *)
(*   pc                                             where the call waits   *)
(* handler[r] is the frame of the POST /api/scrape handler (or of any      *)
(* other caller of crawl), store the documents' url metadata in the        *)
(* vector store, and hist[r] the history of crawl r that the properties    *)
(* are stated over.                                                        *)
(***************************************************************************)
VARIABLES crawler, handler, store, hist, arrivals, site

vars == <<crawler, handler, store, hist, arrivals, site>>

NoCrawler ==
    [pc |-> "none", visited |-> {}, queue |-> << >>, browser |-> "null",
     baseUrl |-> EmptyString, baseDomain |-> EmptyString,
     startUrl |-> EmptyString, config |-> defaultConfig, contents |-> << >>,
     url |-> EmptyString, depth |-> 0,
     tab |-> "none", scraped |-> FALSE, failure |-> FALSE]

\* The history of one crawl:
\*   launched, closed   browser launches that resolved, browser.close calls
\*   dequeued           the entries shifted off the queue, in order
\*   fetches            the entries scrapePage was called for, in order
\*   failed             the urls whose scrapePage call threw, in order
\*   tabs, tabsClosed   the tabs opened, the page.close calls that resolved
\*   screened           the links passed to shouldCrawl
\*   enqueued           the entries pushed by the for loop, each with the
\*                      depth of the page it was found on (from) and the
\*                      number of fetches started by then (at)
\*   unexpanded         a page returned links that the depth test passed over
\*   delays             the rate-limit timers awaited
NoHistory ==
    [launched |-> 0, closed |-> 0, dequeued |-> << >>, fetches |-> << >>,
     failed |-> << >>, tabs |-> 0, tabsClosed |-> 0, screened |-> {},
     enqueued |-> << >>, unexpanded |-> FALSE, delays |-> 0]

Init ==
    /\ crawler = [r \in Requests |-> NoCrawler]
    /\ handler = [r \in Requests |-> [pc |-> "idle", caller |-> "none", status |-> 0, pages |-> 0]]
    /\ store = << >>
    /\ hist = [r \in Requests |-> NoHistory]
    /\ arrivals = 1
    /\ site \in Sites

\* The request that arrives next.
NextRequest(r) ==
    /\ arrivals > 0
    /\ handler[r].pc = "idle"
    /\ \A q \in 1..(r - 1) : handler[q].pc # "idle"

\* NewCrawl on one crawler object that every call shares: the visited set is
\* the one the earlier crawls have filled.
NewCrawl_shared(startUrl, config) ==
    [NoCrawler EXCEPT !.pc = "init", !.startUrl = startUrl, !.config = config,
                      !.visited = UNION {crawler[q].visited : q \in Requests}]

\* new WebCrawler() and the call of crawl up to `await this.init()`.
NewCrawl(startUrl, config) ==
    [NoCrawler EXCEPT !.pc = "init", !.startUrl = startUrl, !.config = config]

\* POST /api/scrape arrives: the handler calls scrapeWebsite(url), which
\* constructs a WebCrawler and calls crawl(url) with the default config.
Receive(r) ==
    /\ NextRequest(r)
    /\ \E url \in StartUrls :
        /\ crawler' = [crawler EXCEPT ![r] = NewCrawl(url, defaultConfig)]
        /\ handler' = [handler EXCEPT ![r].pc = "scrape", ![r].caller = "handler"]
    /\ arrivals' = arrivals - 1
    /\ UNCHANGED <<store, hist, site>>

\* crawl(startUrl, config) called with a config of the caller's.
CallCrawl(r) ==
    /\ NextRequest(r)
    /\ \E url \in StartUrls, config \in Configs :
        /\ crawler' = [crawler EXCEPT ![r] = NewCrawl(url, config)]
        /\ handler' = [handler EXCEPT ![r].pc = "scrape", ![r].caller = "direct"]
    /\ arrivals' = arrivals - 1
    /\ UNCHANGED <<store, hist, site>>

\* ToFinally without the close when crawl is about to rethrow.
ToFinally_leak(c, failure) ==
    [c EXCEPT !.pc = IF failure THEN "thrown" ELSE "close", !.failure = failure]

\* crawl's finally block with a browser: `await this.browser?.close()` is next.
\* failure tells whether crawl then rethrows.
ToFinally(c, failure) == [c EXCEPT !.pc = "close", !.failure = failure]

\* LaunchOk with the start url screened by shouldCrawl before it is pushed.
LaunchOk_screened(r) ==
    LET c == crawler[r]
        b == [c EXCEPT !.browser = "open", !.baseUrl = c.startUrl]
        host == ParseAbs(c.startUrl).hostname
    IN /\ c.pc = "init"
       /\ crawler' = [crawler EXCEPT ![r] =
            IF ~ParseAbs(c.startUrl).ok THEN ToFinally(b, TRUE)
            ELSE [b EXCEPT !.baseDomain = host,
                           !.queue = IF shouldCrawl(c.startUrl, c.config, c.visited, host)
                                     THEN Append(c.queue, [url |-> c.startUrl, depth |-> 0])
                                     ELSE c.queue,
                           !.pc = "loop"]]
       /\ hist' = [hist EXCEPT ![r].launched = @ + 1]
       /\ UNCHANGED <<handler, store, arrivals, site>>

\* chromium.launch resolves: init returns, crawl records baseUrl and
\* baseDomain (new URL(startUrl) may throw) and seeds the queue.
LaunchOk(r) ==
    LET c == crawler[r]
        b == [c EXCEPT !.browser = "open", !.baseUrl = c.startUrl]
    IN /\ c.pc = "init"
       /\ crawler' = [crawler EXCEPT ![r] =
            IF ~ParseAbs(c.startUrl).ok THEN ToFinally(b, TRUE)
            ELSE [b EXCEPT !.baseDomain = ParseAbs(c.startUrl).hostname,
                           !.queue = Append(c.queue, [url |-> c.startUrl, depth |-> 0]),
                           !.pc = "loop"]]
       /\ hist' = [hist EXCEPT ![r].launched = @ + 1]
       /\ UNCHANGED <<handler, store, arrivals, site>>

\* LaunchFail with the rejection swallowed: crawl returns its empty contents.
LaunchFail_swallowed(r) ==
    /\ crawler[r].pc = "init"
    /\ crawler' = [crawler EXCEPT ![r].pc = "returned"]
    /\ UNCHANGED <<handler, store, hist, arrivals, site>>

\* chromium.launch rejects: this.browser is still null, the finally block
\* closes nothing and crawl rejects.
LaunchFail(r) ==
    /\ crawler[r].pc = "init"
    /\ crawler' = [crawler EXCEPT ![r].pc = "thrown", ![r].failure = TRUE]
    /\ UNCHANGED <<handler, store, hist, arrivals, site>>

\* DequeueSkip that looks at the head of the queue without shifting it.
DequeueSkip_peek(r) ==
    LET c == crawler[r]
    IN /\ c.pc = "loop"
       /\ LoopCond(c.queue, c.visited, c.config)
       /\ Head(c.queue).url \in c.visited
       /\ UNCHANGED vars

\* The loop condition holds and the dequeued url is in visited: continue.
DequeueSkip(r) ==
    LET c == crawler[r]
    IN /\ c.pc = "loop"
       /\ LoopCond(c.queue, c.visited, c.config)
       /\ Head(c.queue).url \in c.visited
       /\ crawler' = [crawler EXCEPT ![r].queue = Tail(c.queue)]
       /\ hist' = [hist EXCEPT ![r].dequeued = Append(@, Head(c.queue))]
       /\ UNCHANGED <<handler, store, arrivals, site>>

\* DequeueScrape that does not add the url to visited.
DequeueScrape_unmarked(r) ==
    LET c == crawler[r]
        e == Head(c.queue)
    IN /\ c.pc = "loop"
       /\ LoopCond(c.queue, c.visited, c.config)
       /\ e.url \notin c.visited
       /\ crawler' = [crawler EXCEPT ![r] =
            [c EXCEPT !.queue = Tail(c.queue),
                      !.url = e.url, !.depth = e.depth, !.pc = "newPage"]]
       /\ hist' = [hist EXCEPT ![r].dequeued = Append(@, e), ![r].fetches = Append(@, e)]
       /\ UNCHANGED <<handler, store, arrivals, site>>

\* DequeueScrape for every dequeued url, visited or not.
DequeueScrape_unchecked(r) ==
    LET c == crawler[r]
        e == Head(c.queue)
    IN /\ c.pc = "loop"
       /\ LoopCond(c.queue, c.visited, c.config)
       /\ crawler' = [crawler EXCEPT ![r] =
            [c EXCEPT !.queue = Tail(c.queue), !.visited = c.visited \cup {e.url},
                      !.url = e.url, !.depth = e.depth, !.pc = "newPage"]]
       /\ hist' = [hist EXCEPT ![r].dequeued = Append(@, e), ![r].fetches = Append(@, e)]
       /\ UNCHANGED <<handler, store, arrivals, site>>

\* The loop condition holds and the dequeued url is new: it is added to
\* visited and scrapePage is called, up to `await this.browser!.newPage()`.
DequeueScrape(r) ==
    LET c == crawler[r]
        e == Head(c.queue)
    IN /\ c.pc = "loop"
       /\ LoopCond(c.queue, c.visited, c.config)
       /\ e.url \notin c.visited
       /\ crawler' = [crawler EXCEPT ![r] =
            [c EXCEPT !.queue = Tail(c.queue), !.visited = c.visited \cup {e.url},
                      !.url = e.url, !.depth = e.depth, !.pc = "newPage"]]
       /\ hist' = [hist EXCEPT ![r].dequeued = Append(@, e), ![r].fetches = Append(@, e)]
       /\ UNCHANGED <<handler, store, arrivals, site>>

\* The loop condition fails: the loop ends and the finally block runs.
LoopExit(r) ==
    LET c == crawler[r]
    IN /\ c.pc = "loop"
       /\ ~LoopCond(c.queue, c.visited, c.config)
       /\ crawler' = [crawler EXCEPT ![r] = ToFinally(c, FALSE)]
       /\ UNCHANGED <<handler, store, hist, arrivals, site>>

\* Caught with the error rethrown: the crawl aborts.
Caught_rethrow(c) == [c EXCEPT !.pc = "close", !.failure = TRUE]

\* Caught with the failed url taken out of visited again.
Caught_forget(c) == [c EXCEPT !.pc = "loop", !.visited = @ \ {c.url}]

\* crawl's catch block: the error is logged and the loop goes on.
Caught(c) == [c EXCEPT !.pc = "loop"]

\* browser.newPage resolves: page.goto is awaited inside scrapePage's try.
NewPageOk(r) ==
    /\ crawler[r].pc = "newPage"
    /\ crawler' = [crawler EXCEPT ![r].tab = "open", ![r].pc = "goto"]
    /\ hist' = [hist EXCEPT ![r].tabs = @ + 1]
    /\ UNCHANGED <<handler, store, arrivals, site>>

\* browser.newPage rejects, before scrapePage's try: crawl catches it.
NewPageFail(r) ==
    /\ crawler[r].pc = "newPage"
    /\ crawler' = [crawler EXCEPT ![r] = Caught(crawler[r])]
    /\ hist' = [hist EXCEPT ![r].failed = Append(@, crawler[r].url)]
    /\ UNCHANGED <<handler, store, arrivals, site>>

\* goto, content, cheerio.load, extractContent and extractLinks succeed;
\* scrapePage's finally awaits page.close().
ScrapeOk(r) ==
    /\ crawler[r].pc = "goto"
    /\ crawler' = [crawler EXCEPT ![r].scraped = TRUE, ![r].pc = "pageClose"]
    /\ UNCHANGED <<handler, store, hist, arrivals, site>>

\* goto times out or fails, or content or extraction throws; scrapePage's
\* finally awaits page.close().
ScrapeFail(r) ==
    /\ crawler[r].pc = "goto"
    /\ crawler' = [crawler EXCEPT ![r].scraped = FALSE, ![r].pc = "pageClose"]
    /\ UNCHANGED <<handler, store, hist, arrivals, site>>

\* Scraped with unshift for push: the content goes to the front of contents.
Scraped_unshift(c, links) ==
    [c EXCEPT !.tab = "none",
              !.contents = <<[url |-> c.url]>> \o c.contents,
              !.queue = Expand(c.queue, links, c.depth, c.config, c.visited, c.baseDomain),
              !.scraped = FALSE,
              !.pc = "delay"]

\* crawl's try block after scrapePage has returned links: the content is
\* pushed, the links are expanded and the rate-limit timer is awaited.
Scraped(c, links) ==
    [c EXCEPT !.tab = "none",
              !.contents = Append(c.contents, [url |-> c.url]),
              !.queue = Expand(c.queue, links, c.depth, c.config, c.visited, c.baseDomain),
              !.scraped = FALSE,
              !.pc = "delay"]

\* The links that crawl's for loop passes to shouldCrawl.
Screened(links, depth, config) ==
    IF depth < config.maxDepth THEN {links[i] : i \in 1..Len(links)} ELSE {}

\* page.close resolves after a successful scrape: scrapePage returns the
\* content and the links of the page, whose anchors were hrefs (the page is
\* the environment's, so its anchors are drawn where they are first used).
PageCloseOk(r) ==
    LET c == crawler[r]
    IN /\ c.pc = "pageClose"
       /\ c.scraped
       /\ \E hrefs \in LinkLists(site) :
            LET links == extractLinks(hrefs, c.baseUrl)
                after == Scraped(c, links)
            IN /\ crawler' = [crawler EXCEPT ![r] = after]
               /\ hist' = [hist EXCEPT
                    ![r].screened = @ \cup Screened(links, c.depth, c.config),
                    ![r].enqueued = @ \o
                        [i \in 1..(Len(after.queue) - Len(c.queue)) |->
                            [url |-> after.queue[Len(c.queue) + i].url,
                             depth |-> after.queue[Len(c.queue) + i].depth,
                             from |-> c.depth,
                             at |-> Len(hist[r].fetches)]],
                    ![r].unexpanded = @ \/ (links # << >> /\ ~(c.depth < c.config.maxDepth)),
                    ![r].delays = @ + 1,
                    ![r].tabsClosed = @ + 1]
       /\ UNCHANGED <<handler, store, arrivals, site>>

\* PageCloseFailed without scrapePage's finally: the error leaves scrapePage
\* with the tab still open.
PageCloseFailed_leak(r) ==
    LET c == crawler[r]
    IN /\ c.pc = "pageClose"
       /\ ~c.scraped
       /\ crawler' = [crawler EXCEPT ![r] = Caught(c)]
       /\ hist' = [hist EXCEPT ![r].failed = Append(@, c.url)]
       /\ UNCHANGED <<handler, store, arrivals, site>>

\* page.close resolves after a failed scrape: scrapePage rethrows and crawl
\* catches it.
PageCloseFailed(r) ==
    LET c == crawler[r]
    IN /\ c.pc = "pageClose"
       /\ ~c.scraped
       /\ crawler' = [crawler EXCEPT ![r] = Caught([c EXCEPT !.tab = "none"])]
       /\ hist' = [hist EXCEPT ![r].failed = Append(@, c.url),
                                ![r].tabsClosed = @ + 1]
       /\ UNCHANGED <<handler, store, arrivals, site>>

\* The rate-limit timer fires: next loop iteration.
DelayDone(r) ==
    /\ crawler[r].pc = "delay"
    /\ crawler' = [crawler EXCEPT ![r].pc = "loop"]
    /\ UNCHANGED <<handler, store, hist, arrivals, site>>

\* browser.close resolves in crawl's finally: crawl returns contents or
\* rethrows.
BrowserClose(r) ==
    LET c == crawler[r]
    IN /\ c.pc = "close"
       /\ crawler' = [crawler EXCEPT ![r].browser = "closed",
                                     ![r].pc = IF c.failure THEN "thrown" ELSE "returned"]
       /\ hist' = [hist EXCEPT ![r].closed = @ + 1]
       /\ UNCHANGED <<handler, store, arrivals, site>>

\* scrapeWebsite resolves in the handler: the text is joined and
\* storeEmbeddings(scrapedText, url) is awaited.
HandlerScraped(r) ==
    /\ handler[r].pc = "scrape"
    /\ handler[r].caller = "handler"
    /\ crawler[r].pc = "returned"
    /\ handler' = [handler EXCEPT ![r].pc = "store", ![r].pages = Len(crawler[r].contents)]
    /\ UNCHANGED <<crawler, store, hist, arrivals, site>>

\* scrapeWebsite rejects in the handler: the catch answers 500.
HandlerScrapeFailed(r) ==
    /\ handler[r].pc = "scrape"
    /\ handler[r].caller = "handler"
    /\ crawler[r].pc = "thrown"
    /\ handler' = [handler EXCEPT ![r].pc = "done", ![r].status = 500]
    /\ UNCHANGED <<crawler, store, hist, arrivals, site>>

\* storeEmbeddings resolves: the documents are in the store, the handler
\* answers success.
StoreOk(r) ==
    /\ handler[r].pc = "store"
    /\ store' = Append(store, [url |-> crawler[r].startUrl, request |-> r])
    /\ handler' = [handler EXCEPT ![r].pc = "done", ![r].status = 200]
    /\ UNCHANGED <<crawler, hist, arrivals, site>>

\* storeEmbeddings rejects, with the batches added so far (stored) left in
\* the store: the handler's catch answers 500.
StoreFail(r) ==
    /\ handler[r].pc = "store"
    /\ \E stored \in BOOLEAN :
        store' = IF stored THEN Append(store, [url |-> crawler[r].startUrl, request |-> r])
                 ELSE store
    /\ handler' = [handler EXCEPT ![r].pc = "done", ![r].status = 500]
    /\ UNCHANGED <<crawler, hist, arrivals, site>>

\* A direct caller of crawl gets its result or its error.
CallerDone(r) ==
    /\ handler[r].pc = "scrape"
    /\ handler[r].caller = "direct"
    /\ crawler[r].pc \in {"returned", "thrown"}
    /\ handler' = [handler EXCEPT ![r].pc = "done",
                                  ![r].pages = Len(crawler[r].contents)]
    /\ UNCHANGED <<crawler, store, hist, arrivals, site>>

Next ==
    \E r \in Requests :
        \/ Receive(r)
        \/ CallCrawl(r)
        \/ LaunchOk(r)
        \/ LaunchFail(r)
        \/ DequeueSkip(r)
        \/ DequeueScrape(r)
        \/ LoopExit(r)
        \/ NewPageOk(r)
        \/ NewPageFail(r)
        \/ ScrapeOk(r)
        \/ ScrapeFail(r)
        \/ PageCloseOk(r)
        \/ PageCloseFailed(r)
        \/ DelayDone(r)
        \/ BrowserClose(r)
        \/ HandlerScraped(r)
        \/ HandlerScrapeFailed(r)
        \/ StoreOk(r)
        \/ StoreFail(r)
        \/ CallerDone(r)

Spec == Init /\ [][Next]_vars

\* Two requests are in flight at once: POST /api/scrape is an async handler,
\* so a second request is accepted while the first one's crawl is awaiting.
ConcInit ==
    /\ crawler = [r \in Requests |-> NoCrawler]
    /\ handler = [r \in Requests |-> [pc |-> "idle", caller |-> "none", status |-> 0, pages |-> 0]]
    /\ store = << >>
    /\ hist = [r \in Requests |-> NoHistory]
    /\ arrivals = 2
    /\ site \in ConcSites

\* The steps of the server: every crawl is one that scrapeWebsite started.
ConcNext ==
    \E r \in Requests :
        \/ Receive(r)
        \/ LaunchOk(r)
        \/ LaunchFail(r)
        \/ DequeueSkip(r)
        \/ DequeueScrape(r)
        \/ LoopExit(r)
        \/ NewPageOk(r)
        \/ NewPageFail(r)
        \/ ScrapeOk(r)
        \/ ScrapeFail(r)
        \/ PageCloseOk(r)
        \/ PageCloseFailed(r)
        \/ DelayDone(r)
        \/ BrowserClose(r)
        \/ HandlerScraped(r)
        \/ HandlerScrapeFailed(r)
        \/ StoreOk(r)
        \/ StoreFail(r)

ConcSpec == ConcInit /\ [][ConcNext]_vars

\* The steps of crawl r: each awaited promise settles and the code up to the
\* next await runs.
CrawlStep(r) ==
    \/ LaunchOk(r) \/ LaunchFail(r)
    \/ DequeueSkip(r) \/ DequeueScrape(r) \/ LoopExit(r)
    \/ NewPageOk(r) \/ NewPageFail(r)
    \/ ScrapeOk(r) \/ ScrapeFail(r)
    \/ PageCloseOk(r) \/ PageCloseFailed(r)
    \/ DelayDone(r) \/ BrowserClose(r)

\* Every promise that crawl awaits settles: a launch, a fetch (goto has a
\* timeout), a close and the rate-limit timer resolve or reject.
LiveSpec == Spec /\ \A r \in Requests : WF_vars(CrawlStep(r))

(***************************************************************************)
(* Properties.                                                             *)
(***************************************************************************)
\* The urls of a sequence of records.
UrlsOf(seq) == {seq[i].url : i \in 1..Len(seq)}

\* No url occurs twice in a sequence of records.
NoRepeat(seq) == \A i, j \in 1..Len(seq) : seq[i].url = seq[j].url => i = j

\* C1: in every state of a crawl the visited set has at most maxPages
\* members and the result sequence at most maxPages records.
C1_PageBudget ==
    \A r \in Requests :
        /\ Cardinality(crawler[r].visited) <= crawler[r].config.maxPages
        /\ Len(crawler[r].contents) <= crawler[r].config.maxPages

\* A crawl ended by its page budget: the budget is used up by successful
\* pages while entries are still queued.
C1_Witness ==
    \E r \in Requests :
        /\ crawler[r].pc = "returned"
        /\ crawler[r].config.maxPages > 0
        /\ Len(crawler[r].contents) = crawler[r].config.maxPages
        /\ crawler[r].queue # << >>

\* crawl r is at Done: the loop has ended.
Done(r) == crawler[r].pc \in {"close", "returned"} /\ ~crawler[r].failure

\* C2: once the crawl loop is entered it reaches Done, and at Done the
\* frontier is empty or visited has maxPages members.
C2_Terminates ==
    \A r \in Requests :
        /\ (crawler[r].pc = "loop") ~> Done(r)
        /\ [](Done(r) =>
                \/ crawler[r].queue = << >>
                \/ Cardinality(crawler[r].visited) >= crawler[r].config.maxPages)

\* A crawl at Done that went round a cycle of links: entries were skipped
\* as visited, and a link back to a visited page was screened.
C2_Witness ==
    \E r \in Requests :
        /\ Done(r)
        /\ Len(hist[r].dequeued) > Len(hist[r].fetches)
        /\ hist[r].screened \cap crawler[r].visited # {}

\* The loop of crawl r is about to dequeue an entry whose url is visited.
AtVisitedHead(r) ==
    /\ crawler[r].pc = "loop"
    /\ LoopCond(crawler[r].queue, crawler[r].visited, crawler[r].config)
    /\ Head(crawler[r].queue).url \in crawler[r].visited

\* C3: the step that dequeues an entry whose url is in visited only removes
\* that entry: no fetch starts, no record is appended, no link is enqueued
\* and visited is unchanged.
C3_SkipIsNoOp ==
    [][\A r \in Requests :
          AtVisitedHead(r) /\ crawler'[r] # crawler[r] =>
            /\ crawler'[r] = [crawler[r] EXCEPT !.queue = Tail(@)]
            /\ hist'[r].fetches = hist[r].fetches
            /\ hist'[r].enqueued = hist[r].enqueued
            /\ hist'[r].tabs = hist[r].tabs]_vars

\* An entry was skipped as visited and the crawl went on to fetch a page.
C3_Witness ==
    \E r \in Requests :
        \E i \in 1..Len(hist[r].dequeued) :
            /\ \E j \in 1..(i - 1) : hist[r].dequeued[j].url = hist[r].dequeued[i].url
            /\ crawler[r].pc = "newPage"
            /\ Len(hist[r].dequeued) > i

\* C4: in one crawl no url is fetched twice and no url has two records.
C4_FetchedOnce ==
    \A r \in Requests :
        /\ NoRepeat(hist[r].fetches)
        /\ NoRepeat(crawler[r].contents)

\* A url that two pages enqueued, whose one fetch failed and whose second
\* entry was dequeued afterwards.
C4_Witness ==
    \E r \in Requests :
        \E i, j \in 1..Len(hist[r].dequeued) :
            /\ i < j
            /\ hist[r].dequeued[i].url = hist[r].dequeued[j].url
            /\ hist[r].dequeued[i].depth # hist[r].dequeued[j].depth
            /\ \E k \in 1..Len(hist[r].failed) : hist[r].failed[k] = hist[r].dequeued[i].url

\* The host name of an absolute url.
HostOf(url) == ParseAbs(url).hostname

\* C5: with sameDomain no record's url has another host than the start
\* url, and no entry with another host is enqueued.
C5_SameDomain ==
    \A r \in Requests :
        crawler[r].config.sameDomain /\ ParseAbs(crawler[r].startUrl).ok =>
            /\ \A u \in UrlsOf(crawler[r].contents) : HostOf(u) = HostOf(crawler[r].startUrl)
            /\ \A u \in UrlsOf(hist[r].enqueued) : HostOf(u) = HostOf(crawler[r].startUrl)

\* With sameDomain, a link to another host was screened, and a link that
\* differs from the start url in port only was crawled.
C5_Witness ==
    \E r \in Requests :
        /\ crawler[r].config.sameDomain
        /\ \E u \in hist[r].screened : HostOf(u) # HostOf(crawler[r].startUrl)
        /\ \E u \in UrlsOf(crawler[r].contents) :
                ParseAbs(u).port # ParseAbs(crawler[r].startUrl).port

\* url contains one of the config's exclude patterns.
Excluded(url, config) ==
    \E i \in 1..Len(config.excludePatterns) : Includes(url, config.excludePatterns[i])

\* C6: no enqueued url contains an exclude pattern as a substring.
C6_ExcludePatterns ==
    \A r \in Requests :
        \A u \in UrlsOf(hist[r].enqueued) : ~Excluded(u, crawler[r].config)

\* Links that contain the pattern "/login" in the middle ("/login/reset")
\* and before more letters ("/loginpage") were screened, and another link
\* of the same page was enqueued.
C6_Witness ==
    \E r \in Requests :
        /\ \E u \in hist[r].screened :
                Excluded(u, crawler[r].config) /\ u[Len(u)] = "reset"
        /\ \E u \in hist[r].screened :
                Excluded(u, crawler[r].config) /\ u[Len(u)] = "page"
        /\ hist[r].enqueued # << >>

\* C7: every enqueued entry and every fetched page has depth at most
\* maxDepth, and every enqueued entry is one deeper than the page it was
\* found on; so a page at maxDepth enqueues nothing.
C7_DepthLimit ==
    \A r \in Requests :
        /\ \A i \in 1..Len(hist[r].enqueued) :
                /\ hist[r].enqueued[i].depth <= crawler[r].config.maxDepth
                /\ hist[r].enqueued[i].depth = hist[r].enqueued[i].from + 1
        /\ \A i \in 1..Len(hist[r].fetches) :
                hist[r].fetches[i].depth <= crawler[r].config.maxDepth

\* A page at depth maxDepth > 0 was scraped and returned links.
C7_Witness ==
    \E r \in Requests :
        /\ crawler[r].config.maxDepth > 0
        /\ hist[r].unexpanded
        /\ crawler[r].pc = "delay"
        /\ crawler[r].depth = crawler[r].config.maxDepth

\* C8: a failed page leaves the crawl running: the step that records the
\* failure appends no record and enqueues nothing, keeps the records and
\* the queue, and goes back to the loop with the browser open; and the
\* crawl then still reaches Done, where the frontier is empty or the page
\* budget is used up.
C8_FailureIsolated ==
    /\ [][\A r \in Requests :
            hist'[r].failed # hist[r].failed =>
                /\ crawler'[r].pc = "loop"
                /\ crawler'[r].browser = "open"
                /\ crawler'[r].contents = crawler[r].contents
                /\ crawler'[r].queue = crawler[r].queue
                /\ hist'[r].enqueued = hist[r].enqueued
                /\ crawler[r].url \notin UrlsOf(crawler'[r].contents)]_vars
    /\ \A r \in Requests :
            (hist[r].failed # << >>) ~>
                (/\ Done(r)
                 /\ \/ crawler[r].queue = << >>
                    \/ Cardinality(crawler[r].visited) >= crawler[r].config.maxPages)

\* A page failed while entries were queued, and a page fetched after it
\* has its record.
C8_Witness ==
    \E r \in Requests :
        /\ crawler[r].pc = "returned"
        /\ \E i, j \in 1..Len(hist[r].fetches) :
                /\ i < j
                /\ \E k \in 1..Len(hist[r].failed) : hist[r].failed[k] = hist[r].fetches[i].url
                /\ hist[r].fetches[j].url \in UrlsOf(crawler[r].contents)
                /\ hist[r].fetches[i].url \notin UrlsOf(crawler[r].contents)

\* crawl r is inside scrapePage.
Fetching(r) == crawler[r].pc \in {"newPage", "goto", "pageClose"}

\* C9: after a launch the browser is closed exactly once before crawl
\* returns or throws, and no fetch runs on a closed browser.
C9_BrowserClosedOnce ==
    \A r \in Requests :
        /\ hist[r].closed <= hist[r].launched
        /\ hist[r].closed <= 1
        /\ crawler[r].pc \in {"returned", "thrown"} /\ hist[r].launched = 1 =>
                hist[r].closed = 1 /\ crawler[r].browser = "closed"
        /\ Fetching(r) => hist[r].closed = 0 /\ crawler[r].browser = "open"

\* crawl threw after a launch (the start url does not parse) and the
\* browser is closed.
C9_Witness ==
    \E r \in Requests :
        /\ crawler[r].pc = "thrown"
        /\ hist[r].launched = 1
        /\ hist[r].closed = 1

\* The launch of crawl r failed.
LaunchFailed(r) == crawler[r].pc \notin {"none", "init"} /\ hist[r].launched = 0

\* C10: when the launch fails crawl throws: it fetches no page and returns
\* no result, and the handler answers 500 and stores nothing.
C10_LaunchFailure ==
    \A r \in Requests :
        LaunchFailed(r) =>
            /\ crawler[r].pc = "thrown"
            /\ hist[r].fetches = << >>
            /\ crawler[r].contents = << >>
            /\ handler[r].pc # "store"
            /\ handler[r].pc = "done" /\ handler[r].caller = "handler" => handler[r].status = 500
            /\ \A i \in 1..Len(store) : store[i].request # r

\* The handler has answered a request whose launch failed.
C10_Witness ==
    \E r \in Requests :
        /\ LaunchFailed(r)
        /\ handler[r].caller = "handler"
        /\ handler[r].pc = "done"

\* The queue entries (url and depth) of a sequence of records.
Entries(seq) == [i \in 1..Len(seq) |-> [url |-> seq[i].url, depth |-> seq[i].depth]]

\* crawl r has seeded its queue with the start url.
Seeded(r) == hist[r].launched = 1 /\ ParseAbs(crawler[r].startUrl).ok

\* C11: the queue is first in, first out (the entries dequeued so far,
\* followed by the queue, are the start entry followed by the entries pushed,
\* in the order of the pushes), and the depths of the entries dequeued never
\* decrease.
C11_BreadthFirst ==
    \A r \in Requests :
        Seeded(r) =>
            /\ hist[r].dequeued \o crawler[r].queue =
                    <<[url |-> crawler[r].startUrl, depth |-> 0]>> \o Entries(hist[r].enqueued)
            /\ \A i, j \in 1..Len(hist[r].dequeued) :
                    i < j => hist[r].dequeued[i].depth <= hist[r].dequeued[j].depth

\* Two entries of depth 1 were dequeued before an entry of depth 2 that was
\* pushed while the second of them was still queued.
C11_Witness ==
    \E r \in Requests :
        \E i, j, k \in 1..Len(hist[r].dequeued) :
            /\ i < j /\ j < k
            /\ hist[r].dequeued[i].depth = 1
            /\ hist[r].dequeued[j].depth = 1
            /\ hist[r].dequeued[k].depth = 2
            /\ hist[r].dequeued[k].url # hist[r].dequeued[j].url

\* The fetches of crawl r whose scrapePage call has returned or thrown.
Completed(r) ==
    IF Fetching(r) THEN SubSeq(hist[r].fetches, 1, Len(hist[r].fetches) - 1)
    ELSE hist[r].fetches

\* The urls of the completed fetches that did not fail, in dequeue order.
Succeeded(r) ==
    LET ok(e) == \A k \in 1..Len(hist[r].failed) : hist[r].failed[k] # e.url
        kept == SelectSeq(Completed(r), ok)
    IN [i \in 1..Len(kept) |-> [url |-> kept[i].url]]

\* C12: contents is always the sequence of the processed urls whose scrape
\* succeeded, in dequeue order (so this is what crawl returns), and a step
\* only ever appends to it.
C12_ResultOrder ==
    /\ [](\A r \in Requests : crawler[r].contents = Succeeded(r))
    /\ [][\A r \in Requests :
            /\ Len(crawler'[r].contents) >= Len(crawler[r].contents)
            /\ SubSeq(crawler'[r].contents, 1, Len(crawler[r].contents)) = crawler[r].contents]_vars

\* crawl returned two records with a failed page processed between them.
C12_Witness ==
    \E r \in Requests :
        /\ crawler[r].pc = "returned"
        /\ Len(crawler[r].contents) = 2
        /\ \E i, j, k \in 1..Len(hist[r].fetches) :
            /\ i < j /\ j < k
            /\ crawler[r].contents[1].url = hist[r].fetches[i].url
            /\ crawler[r].contents[2].url = hist[r].fetches[k].url
            /\ hist[r].failed = <<hist[r].fetches[j].url>>

\* Two urls differ at most by a fragment.
SamePage(u, v) == SplitHash(u) = SplitHash(v)

\* C13: a link that differs only by a fragment from a url that is already
\* visited is not enqueued, and no two fetches of a crawl differ only by a
\* fragment.
C13_FragmentVariantsSkipped ==
    \A r \in Requests :
        /\ \A i \in 1..Len(hist[r].enqueued) :
                \A k \in 1..hist[r].enqueued[i].at :
                    ~SamePage(hist[r].enqueued[i].url, hist[r].fetches[k].url)
        /\ \A i, j \in 1..Len(hist[r].fetches) :
                SamePage(hist[r].fetches[i].url, hist[r].fetches[j].url) => i = j

\* C14: two crawls that scrapeWebsite started and that run at the same time
\* share no session state: the visited set, the queue, the result list and
\* the browser of each are a function of that crawl's own steps alone, and a
\* step of one crawl leaves every field of the other crawl as it was.
C14_Isolated ==
    /\ [](\A r \in Requests :
            /\ crawler[r].visited = UrlsOf(hist[r].fetches)
            /\ crawler[r].contents = Succeeded(r)
            /\ Seeded(r) =>
                    hist[r].dequeued \o crawler[r].queue =
                        <<[url |-> crawler[r].startUrl, depth |-> 0]>> \o Entries(hist[r].enqueued)
            /\ hist[r].launched <= 1
            /\ crawler[r].browser = "open" <=> (hist[r].launched = 1 /\ hist[r].closed = 0))
    /\ [][\A r1, r2 \in Requests :
            (r1 # r2 /\ crawler'[r1] # crawler[r1]) => crawler'[r2] = crawler[r2]]_vars

\* Witness for C14: both crawls are fetching the same depth-1 url at the same
\* time, each having fetched the same start url before.
C14_Witness ==
    /\ crawler[1].pc = "goto" /\ crawler[2].pc = "goto"
    /\ crawler[1].url = crawler[2].url
    /\ crawler[1].depth = 1 /\ crawler[2].depth = 1
    /\ crawler[1].startUrl = crawler[2].startUrl
    /\ Len(crawler[1].contents) = 1 /\ Len(crawler[2].contents) = 1

\* C15: between two iterations of the loop the rate-limit delay has been
\* awaited exactly once for every url that was dequeued, marked visited and
\* fetched, whether the fetch succeeded or failed; a dequeued entry that is
\* skipped as already visited adds no delay.
C15_DelayPerProcessed ==
    \A r \in Requests :
        (~Fetching(r) /\ crawler[r].pc # "delay") =>
            hist[r].delays = Len(hist[r].fetches)

\* The tabs of crawl r that are open.
OpenTabs(r) == hist[r].tabs - hist[r].tabsClosed

\* C16: a fetch opens one tab and closes it on every way out of scrapePage,
\* before the next entry is dequeued: at most one tab is open, one is open
\* exactly while a fetch is between newPage and the end of page.close, no
\* tab is open when crawl ends, and no more tabs are opened than fetches made.
C16_OneTabPerFetch ==
    /\ [](\A r \in Requests :
            /\ OpenTabs(r) \in {0, 1}
            /\ OpenTabs(r) = 1 <=> crawler[r].pc \in {"goto", "pageClose"}
            /\ hist[r].tabs <= Len(hist[r].fetches)
            /\ (hist[r].failed = << >> /\ crawler[r].pc # "newPage") =>
                    hist[r].tabs = Len(hist[r].fetches)
            /\ Len(crawler[r].contents) <= hist[r].tabsClosed)
    /\ [][\A r \in Requests :
            /\ hist'[r].tabs <= hist[r].tabs + 1
            /\ Len(hist'[r].dequeued) > Len(hist[r].dequeued) => OpenTabs(r) = 0]_vars

\* Witness for C16: a crawl has returned after two fetches, one that failed
\* after its tab was opened and one that succeeded; both tabs are closed.
C16_Witness ==
    \E r \in Requests :
        /\ crawler[r].pc = "returned"
        /\ hist[r].tabs = 2 /\ hist[r].tabsClosed = 2
        /\ Len(hist[r].failed) = 1
        /\ Len(crawler[r].contents) = 1

\* C17: visited changes only in the step that dequeues an entry and goes on
\* to fetch it, and then by adding exactly the dequeued url, which was not
\* a member; no step removes a member; a step that enqueues links leaves
\* visited as it was, and none of the urls it enqueues is in visited.
C17_VisitedFrame ==
    [][\A r \in Requests :
        LET c == crawler[r]
            d == crawler'[r]
            old == Len(hist[r].enqueued)
        IN /\ c.visited \subseteq d.visited
           /\ d.visited # c.visited =>
                /\ c.pc = "loop" /\ d.pc = "newPage"
                /\ c.queue # << >>
                /\ Head(c.queue).url \notin c.visited
                /\ d.visited = c.visited \cup {Head(c.queue).url}
                /\ d.queue = Tail(c.queue)
                /\ hist'[r].fetches = Append(hist[r].fetches, Head(c.queue))
           /\ Len(hist'[r].enqueued) > old =>
                /\ d.visited = c.visited
                /\ \A i \in (old + 1)..Len(hist'[r].enqueued) :
                        hist'[r].enqueued[i].url \notin c.visited]_vars

\* Witness for C17: the queue holds one url twice (a pending link was
\* enqueued again) and a screened link that was in visited was never enqueued.
C17_Witness ==
    \E r \in Requests :
        /\ \E i, j \in 1..Len(crawler[r].queue) :
                i < j /\ crawler[r].queue[i].url = crawler[r].queue[j].url
        /\ \E u \in hist[r].screened :
                u \in crawler[r].visited /\ u \notin UrlsOf(hist[r].enqueued)

\* C18: every member of visited and the url of every record of contents is
\* equal to its own normalization, whatever the start url, and no two
\* records of one crawl have urls with the same normalization.
C18_AllNormalized ==
    \A r \in Requests :
        LET c == crawler[r]
            norm(u) == normalizeUrl(u, c.baseUrl)
        IN /\ \A u \in c.visited : norm(u) = u
           /\ \A i \in 1..Len(c.contents) : norm(c.contents[i].url) = c.contents[i].url
           /\ \A i, j \in 1..Len(c.contents) :
                    norm(c.contents[i].url) = norm(c.contents[j].url) => i = j

\* C19: the number of scrapePage calls equals the size of visited, and
\* between two iterations it equals the number of records plus the number of
\* failed fetches, so a failed page uses up a slot of maxPages.  With
\* maxPages = 1 only the start url is dequeued and fetched, and a crawl that
\* ends after that fetch succeeded returns exactly one record.
C19_BudgetCountsFailures ==
    \A r \in Requests :
        LET c == crawler[r]
        IN /\ Len(hist[r].fetches) = Cardinality(c.visited)
           /\ ~Fetching(r) =>
                Len(hist[r].fetches) = Len(c.contents) + Len(hist[r].failed)
           /\ c.config.maxPages = 1 =>
                /\ Len(hist[r].dequeued) <= 1
                /\ \A i \in 1..Len(hist[r].fetches) :
                        hist[r].fetches[i] = [url |-> c.startUrl, depth |-> 0]
                /\ (Done(r) /\ hist[r].failed = << >>) => Len(c.contents) = 1

\* Witness for C19: a crawl with maxPages = 2 has returned one record: the
\* second fetch failed and used up the budget, and a link is left in the queue.
C19_Witness ==
    \E r \in Requests :
        /\ crawler[r].pc = "returned"
        /\ crawler[r].config.maxPages = 2
        /\ Len(crawler[r].contents) = 1
        /\ Len(hist[r].failed) = 1
        /\ hist[r].failed[1] # crawler[r].startUrl
        /\ crawler[r].queue # << >>

\* C20: the start url is pushed and fetched without being screened: it is the
\* first entry of the queue and, unless maxPages is 0, the first url
\* fetched, even when shouldCrawl would reject it.  Every url fetched after
\* it was screened and enqueued: it contains no exclude pattern and, with
\* sameDomain, has the hostname of the start url.
C20_StartUnscreened ==
    \A r \in Requests :
        Seeded(r) =>
            LET c == crawler[r]
                all == hist[r].dequeued \o c.queue
                first == [url |-> c.startUrl, depth |-> 0]
            IN /\ all # << >> /\ Head(all) = first
               /\ (c.config.maxPages >= 1 /\ c.pc # "loop") =>
                    hist[r].fetches # << >> /\ Head(hist[r].fetches) = first
               /\ \A i \in 2..Len(hist[r].fetches) :
                    LET u == hist[r].fetches[i].url
                    IN /\ u \in hist[r].screened
                       /\ u \in UrlsOf(hist[r].enqueued)
                       /\ ~Excluded(u, c.config)
                       /\ c.config.sameDomain => HostOf(u) = c.baseDomain

\* Witness for C20: the start url contains an exclude pattern of the config
\* and its page is in the result; a second page was fetched while a link
\* that contains an exclude pattern was screened and left out.
C20_Witness ==
    \E r \in Requests :
        /\ Excluded(crawler[r].startUrl, crawler[r].config)
        /\ Len(crawler[r].contents) = 2
        /\ crawler[r].contents[1].url = crawler[r].startUrl
        /\ \E u \in hist[r].screened :
                Excluded(u, crawler[r].config) /\ u \notin UrlsOf(hist[r].enqueued)

\* Every entry the crawl has had for url: the seed and the pushed links.
EntriesFor(r, url) ==
    LET all == <<[url |-> crawler[r].startUrl, depth |-> 0]>> \o Entries(hist[r].enqueued)
    IN {all[i] : i \in {k \in 1..Len(all) : all[k].url = url}}

\* The dequeued entries of crawl r that were the first dequeued for their url.
FirstDequeued(r) ==
    LET d == hist[r].dequeued
        F[i \in 0..Len(d)] ==
            IF i = 0 THEN << >>
            ELSE IF \A k \in 1..(i - 1) : d[k].url # d[i].url
                 THEN Append(F[i - 1], d[i])
                 ELSE F[i - 1]
    IN F[Len(d)]

\* C21: the entry of a url that is processed is the first one dequeued for
\* that url, and its depth is the least depth of all entries ever enqueued
\* for the url; the depth test for expanding the page uses that depth.
C21_ShallowestProcessed ==
    \A r \in Requests :
        Seeded(r) =>
            /\ hist[r].fetches = FirstDequeued(r)
            /\ \A j \in 1..Len(hist[r].fetches) :
                    LET e == hist[r].fetches[j]
                    IN /\ e \in EntriesFor(r, e.url)
                       /\ \A f \in EntriesFor(r, e.url) : e.depth <= f.depth
            /\ Fetching(r) =>
                    crawler[r].depth = hist[r].fetches[Len(hist[r].fetches)].depth

\* Witness for C21: a url was enqueued at depth 1 and again at depth 2; the
\* depth-1 entry was fetched and the depth-2 entry was dequeued and skipped.
C21_Witness ==
    \E r \in Requests :
        \E i, j \in 1..Len(hist[r].dequeued) :
            /\ i < j
            /\ hist[r].dequeued[i].url = hist[r].dequeued[j].url
            /\ hist[r].dequeued[i].depth = 1
            /\ hist[r].dequeued[j].depth = 2
            /\ EntriesFor(r, hist[r].dequeued[i].url) =
                    {hist[r].dequeued[i], hist[r].dequeued[j]}
            /\ \E k \in 1..Len(hist[r].fetches) : hist[r].fetches[k] = hist[r].dequeued[i]

====
